---- MODULE Spec2Model ----
(***************************************************************************)
(* Tool marketplace engine of cdp-hackathon-backend.                       *)
(*                                                                         *)
(*   - ToolDiscoveryService (src/src/services/toolDiscovery.ts): the tool  *)
(*     registry: registerApiTool, updateTool, deactivateTool over the      *)
(*     ApiTool collection (src/unnamed/part_003, ApiToolSchema).           *)
(*   - ToolExecutorService (src/src/services/toolExecution.ts): one        *)
(*     executeTool call as a process that suspends at each await (fetch,   *)
(*     backoff sleep, usage.save), and the ToolUsage ledger it writes.     *)
(*                                                                         *)
(* Strings that the code inspects character by character are sequences of  *)
(* one-character strings; an absent (undefined) property is Absent.        *)
(***************************************************************************)
EXTENDS Integers, Sequences, FiniteSets, TLC

VARIABLES
    tools,      \* the ApiTool collection, in insertion order
    now,        \* Date.now(), in milliseconds
    lastOp,     \* the registry operation that ran last and what it returned
    calls,      \* executeTool invocations: position and locals of each
    ledger,     \* the ToolUsage collection, in insertion order
    requestCounts   \* the rate limiter's map: client id -> { count, resetTime }

vars == <<tools, now, lastOp, calls, ledger, requestCounts>>

----------------------------------------------------------------------------
(* Bounds of the model *)

MaxTools == 2       \* registered tools
MaxTime == 2        \* clock ticks
NumRand == 2        \* distinct outcomes of Math.random() in a toolId
MaxRetries == 3     \* largest apiConfig.retries a tool declares

----------------------------------------------------------------------------
(* JavaScript values *)

Absent == "<absent>"
AbsentCost == <<"<absent>">>
AbsentId == <<"<absent>", 0, 0>>

\* `${v}` in a template literal: undefined is rendered as the word undefined
Interp(v) == IF v = Absent THEN "undefined" ELSE v

\* if (v): undefined and the empty string are falsy
Truthy(v) == v # Absent /\ v # ""

Digits == {"0", "1", "2", "3", "4", "5", "6", "7", "8", "9"}

----------------------------------------------------------------------------
(* The embedding collaborator: embedQuery maps a text to a vector that the *)
(* text determines; the vector is never empty.                             *)

EmbedQuery(text) == <<text>>

----------------------------------------------------------------------------
(* Tool registry *)

Users == {"u1", "u2"}
Names == {"n1"}
Descriptions == {"d1"}
Categories == {"c1"}
ParamTexts == {"p1"}
Costs == {<<"5">>, <<"-", "1">>}

\* ApiToolSchema pricing.costInWei validator: /^\d+$/.test(v) && BigInt(v) >= 0n
CostValidator(v) == Len(v) > 0 /\ \A i \in 1..Len(v) : v[i] \in Digits

\* toolId: `tool_${Date.now()}_${Math.random().toString(36).substr(2, 9)}`
MakeToolId(t, r) == <<"tool", t, r>>

\* (metadata.isPublic is left to its schema default)
ToolData ==
    [name : Names, description : Descriptions, category : Categories,
     paramText : ParamTexts, costInWei : Costs, isPublic : {TRUE}]

\* registerApiTool: the text that is embedded
RegisterSearchText(d) ==
    <<Interp(d.name), Interp(d.description), Interp(d.category), Interp(d.paramText)>>

\* new ApiTool({...toolData, userId, toolId, embedding, updatedAt})
NewApiTool(userId, d, toolId, embedding) ==
    [toolId |-> toolId, userId |-> userId, name |-> d.name,
     description |-> d.description, category |-> d.category,
     paramText |-> d.paramText, costInWei |-> d.costInWei,
     isActive |-> TRUE, isPublic |-> d.isPublic, embedding |-> embedding,
     updatedAt |-> now]

StoredIds == {tools[i].toolId : i \in 1..Len(tools)}

UniqueIndexOk_NoIndex(doc) == TRUE

\* toolId: { unique: true }: the unique index refuses a second document
UniqueIndexOk(doc) == doc.toolId \notin StoredIds

\* tool.save(): schema validation, then the insert under the unique index
SaveOk(doc) == CostValidator(doc.costInWei) /\ UniqueIndexOk(doc)

NoPatch ==
    [toolId |-> AbsentId, name |-> Absent, description |-> Absent,
     category |-> Absent, costInWei |-> AbsentCost]

\* lastOp: the operation, the index of the document it matched (0: none),
\* whether its patch carries name, description or category, what it returned,
\* what became of its embedQuery call and the vector that call returned, and
\* whether the matched document existed and was active before the operation
NoOp ==
    [op |-> "none", idx |-> 0, carries |-> FALSE, ret |-> FALSE, embed |-> "none",
     vec |-> <<>>, existed |-> FALSE, wasActive |-> FALSE]

\* (MaxTools bounds the registrations that the collaborators let through)
RegisterApiTool(userId, d, r, embedOk, dbOk) ==
    /\ (Len(tools) < MaxTools \/ ~embedOk \/ ~dbOk)
    /\ LET toolId == MakeToolId(now, r)
           doc == NewApiTool(userId, d, toolId, EmbedQuery(RegisterSearchText(d)))
           saved == embedOk /\ dbOk /\ SaveOk(doc)
       IN /\ tools' = IF saved THEN Append(tools, doc) ELSE tools
          /\ lastOp' = [NoOp EXCEPT !.op = "register",
                            !.idx = IF saved THEN Len(tools) + 1 ELSE 0,
                            !.ret = saved,
                            !.embed = IF embedOk THEN "ok" ELSE "failed",
                            !.vec = IF embedOk THEN doc.embedding ELSE <<>>]
    /\ UNCHANGED <<requestCounts, now, calls, ledger>>

\* the patches of updateTool: pricing alone, description alone, name and
\* category, description and pricing
Patches ==
    { [NoPatch EXCEPT !.costInWei = <<"7">>],
      [NoPatch EXCEPT !.description = "d2"],
      [NoPatch EXCEPT !.name = "n2", !.category = "c2"],
      [NoPatch EXCEPT !.description = "d2", !.costInWei = <<"7">>] }

\* the patch has a name, a description or a category property
CarriesSearchField(p) ==
    p.name # Absent \/ p.description # Absent \/ p.category # Absent

TouchesSearchText_Always(p) == TRUE

\* updateTool: if (updates.name || updates.description || updates.category)
TouchesSearchText(p) == Truthy(p.name) \/ Truthy(p.description) \/ Truthy(p.category)

\* updateTool: the text that is embedded, built from the patch alone
UpdateSearchText(p) == <<Interp(p.name), Interp(p.description), Interp(p.category)>>

\* findOneAndUpdate's $set: every field the update carries replaces the stored one
\* (embedding <<>>: the update carries no embedding)
ApplyUpdates(doc, p, embedding) ==
    [doc EXCEPT
        !.toolId = IF p.toolId = AbsentId THEN @ ELSE p.toolId,
        !.name = IF p.name = Absent THEN @ ELSE p.name,
        !.description = IF p.description = Absent THEN @ ELSE p.description,
        !.category = IF p.category = Absent THEN @ ELSE p.category,
        !.costInWei = IF p.costInWei = AbsentCost THEN @ ELSE p.costInWei,
        !.embedding = IF embedding = <<>> THEN @ ELSE embedding,
        !.updatedAt = now]

Exists(toolId) == \E i \in 1..Len(tools) : tools[i].toolId = toolId

\* the document a { toolId } filter matches (0: none)
IndexOf(toolId) ==
    IF Exists(toolId) THEN CHOOSE i \in 1..Len(tools) : tools[i].toolId = toolId ELSE 0

\* findOneAndUpdate under the unique index of toolId: the update that gives the
\* matched document the toolId of another document is refused (duplicate key)
DuplicateKey(i, p) ==
    /\ i > 0
    /\ p.toolId # AbsentId
    /\ \E j \in 1..Len(tools) : j # i /\ tools[j].toolId = p.toolId

EmbedRejects_Swallowed(touched, embedOk) == FALSE

\* updateTool: the rejection of `await this.embeddings.embedQuery(searchText)`
\* leaves updateTool before findOneAndUpdate
EmbedRejects(touched, embedOk) == touched /\ ~embedOk

UpdateTool(toolId, p, embedOk) ==
    /\ LET touched == TouchesSearchText(p)
           embedding == IF touched THEN EmbedQuery(UpdateSearchText(p)) ELSE <<>>
           i == IndexOf(toolId)
           aborted == EmbedRejects(touched, embedOk) \/ DuplicateKey(i, p)
       IN /\ (~touched => embedOk)
          /\ tools' = IF ~aborted /\ i > 0
                      THEN [tools EXCEPT ![i] = ApplyUpdates(@, p, embedding)]
                      ELSE tools
          /\ lastOp' = [NoOp EXCEPT !.op = "update", !.idx = i,
                            !.carries = CarriesSearchField(p),
                            !.ret = ~aborted /\ i > 0,
                            !.embed = IF ~touched THEN "none"
                                      ELSE IF embedOk THEN "ok" ELSE "failed",
                            !.vec = IF aborted THEN <<>> ELSE embedding,
                            !.existed = i > 0]
    /\ UNCHANGED <<requestCounts, now, calls, ledger>>

\* updateOne's modifiedCount: the documents the $set actually changed
ModifiedCount(toolId) ==
    LET i == IndexOf(toolId)
    IN IF i > 0 /\ (tools[i].isActive \/ tools[i].updatedAt # now) THEN 1 ELSE 0

DeactivateTool(toolId) ==
    /\ LET i == IndexOf(toolId)
       IN /\ tools' = IF i > 0
                      THEN [tools EXCEPT ![i].isActive = FALSE, ![i].updatedAt = now]
                      ELSE tools
          /\ lastOp' = [NoOp EXCEPT !.op = "deactivate", !.idx = i,
                            !.ret = ModifiedCount(toolId) > 0,
                            !.existed = i > 0,
                            !.wasActive = i > 0 /\ tools[i].isActive]
    /\ UNCHANGED <<requestCounts, now, calls, ledger>>

\* time passes between two operations
Tick ==
    /\ now < MaxTime
    /\ now' = now + 1
    /\ UNCHANGED <<requestCounts, tools, lastOp, calls, ledger>>

----------------------------------------------------------------------------
(* Execution engine: the values a caller supplies and the tools it runs *)

\* a JavaScript value: its typeof tag, and its number or string
Undefined == [t |-> "undefined", n |-> 0, s |-> ""]
Null == [t |-> "null", n |-> 0, s |-> ""]
Num(k) == [t |-> "number", n |-> k, s |-> ""]
Str(x) == [t |-> "string", n |-> 0, s |-> x]

IsMissing(value) == value = Undefined \/ value = Null

\* an optional numeric property of a validation record
NoNum == [def |-> FALSE, v |-> 0]
SomeNum(k) == [def |-> TRUE, v |-> k]

\* validation.enum: undefined, or an array of values
NoEnum == [def |-> FALSE, vals |-> {}]
Enum(vals) == [def |-> TRUE, vals |-> vals]

\* validation.pattern: undefined, or a regular expression, given by the
\* strings of the model that it matches
NoPattern == [def |-> FALSE, matches |-> {}]
Pattern(matches) == [def |-> TRUE, matches |-> matches]

\* param.validation: undefined, or a record of min, max, pattern, enum
NoValidation == [def |-> FALSE, min |-> NoNum, max |-> NoNum, pattern |-> NoPattern, enum |-> NoEnum]
Validation(min, max, pattern, enum) ==
    [def |-> TRUE, min |-> min, max |-> max, pattern |-> pattern, enum |-> enum]

ParamSpec(name, type, required, validation) ==
    [name |-> name, type |-> type, required |-> required, validation |-> validation]

ParamNames == {"q", "n"}

\* the parameter lists of the tools that are executed
ParamLists ==
    { <<ParamSpec("q", "string", TRUE, NoValidation)>>,
      <<ParamSpec("q", "string", TRUE, Validation(NoNum, NoNum, Pattern({"a"}), Enum({}))),
        ParamSpec("n", "number", FALSE, Validation(SomeNum(1), SomeNum(2), NoPattern, Enum({})))>>,
      <<ParamSpec("n", "number", FALSE, Validation(SomeNum(1), NoNum, NoPattern, NoEnum))>>,
      <<ParamSpec("n", "number", TRUE, Validation(NoNum, SomeNum(2), NoPattern, Enum({Num(0), Num(1)})))>> }

\* the parameter maps a caller supplies: parameters[name] of a name that the
\* map does not have is undefined
ParamMaps ==
    [ParamNames -> {Undefined}]
    \cup {[q |-> qv, n |-> nv] : qv \in {Undefined, Str("a"), Str("b")},
                                 nv \in {Undefined, Null, Num(0), Num(3), Str("b")}}

\* apiConfig.headers: a set of <<name, value>> pairs, one per name
HeaderSets ==
    { {},
      {<<"X-Api-Key", "k">>},
      {<<"Content-Type", "text/plain">>, <<"X-Api-Key", "k">>} }

Methods == {"GET", "POST"}

ExecTools ==
    [toolId : {MakeToolId(0, 1)}, parameters : ParamLists,
     retries : -1..MaxRetries, headers : HeaderSets, method : Methods,
     costInWei : {<<"5">>}]

----------------------------------------------------------------------------
(* ToolExecutorService *)

\* validateType
ValidateType(value, expectedType) ==
    CASE expectedType = "string" -> value.t = "string"
      [] expectedType = "number" -> value.t = "number"
      [] expectedType = "boolean" -> value.t = "boolean"
      [] expectedType = "object" -> value.t = "object"
      [] expectedType = "array" -> value.t = "array"
      [] OTHER -> TRUE

\* value < bound and value > bound: a string that is no numeral converts to NaN,
\* and every comparison with NaN is false
JsLess(value, bound) == value.t = "number" /\ value.n < bound
JsGreater(value, bound) == value.t = "number" /\ value.n > bound

\* validateConstraints reads validation.enum.length: a TypeError when
\* validation.enum is undefined
ConstraintsThrow(validation) == ~validation.enum.def

\* validateConstraints: the messages, in the order they are pushed
ValidateConstraints(paramName, value, validation) ==
    (IF validation.min.def /\ JsLess(value, validation.min.v)
     THEN <<<<"min", paramName>>>> ELSE <<>>)
    \o (IF validation.max.def /\ JsGreater(value, validation.max.v)
        THEN <<<<"max", paramName>>>> ELSE <<>>)
    \o (IF validation.pattern.def /\ value.t = "string"
           /\ value.s \notin validation.pattern.matches
        THEN <<<<"pattern", paramName>>>> ELSE <<>>)
    \o (IF validation.enum.def /\ validation.enum.vals # {}
           /\ value \notin validation.enum.vals
        THEN <<<<"enum", paramName>>>> ELSE <<>>)

\* one round of validateParameters' loop: the messages of one parameter
ValidateOne(param, value) ==
    IF param.required /\ IsMissing(value)
    THEN <<<<"required", param.name>>>>
    ELSE IF ~IsMissing(value)
         THEN (IF ~ValidateType(value, param.type)
               THEN <<<<"type", param.name>>>> ELSE <<>>)
              \o (IF param.validation.def
                  THEN ValidateConstraints(param.name, value, param.validation)
                  ELSE <<>>)
         ELSE <<>>

\* the round of the loop at which validateConstraints throws
ThrowsAt(param, value) ==
    /\ ~(param.required /\ IsMissing(value))
    /\ ~IsMissing(value)
    /\ param.validation.def
    /\ ConstraintsThrow(param.validation)

RECURSIVE CollectErrors(_, _, _)
CollectErrors(params, parameters, i) ==
    IF i > Len(params) THEN <<>>
    ELSE ValidateOne(params[i], parameters[params[i].name])
         \o CollectErrors(params, parameters, i + 1)

\* validateParameters: { valid, errors }, or the exception that leaves it
ValidateParameters(tool, parameters) ==
    LET throws == \E i \in 1..Len(tool.parameters) :
                      ThrowsAt(tool.parameters[i], parameters[tool.parameters[i].name])
        errors == IF throws THEN <<>> ELSE CollectErrors(tool.parameters, parameters, 1)
    IN [throws |-> throws, valid |-> ~throws /\ errors = <<>>, errors |-> errors]

\* { ...a, ...b }: a property of b replaces the property of a with that name
Spread(a, b) == b \cup {h \in a : \A g \in b : g[1] # h[1]}

\* prepareRequest: headers
RequestHeaders(tool) == Spread({<<"Content-Type", "application/json">>}, tool.headers)

\* prepareRequest: the parameters go to the query string of a GET and to the
\* JSON body of any other method
PrepareRequest(tool, parameters) ==
    [method |-> tool.method,
     headers |-> RequestHeaders(tool),
     query |-> IF tool.method = "GET" THEN parameters ELSE [x \in ParamNames |-> Undefined],
     body |-> IF tool.method = "GET" THEN [x \in ParamNames |-> Undefined] ELSE parameters]

NoRequest ==
    [method |-> "", headers |-> {}, query |-> [x \in ParamNames |-> Undefined],
     body |-> [x \in ParamNames |-> Undefined]]

DefaultRetries == 3
BackoffUnitMs == 1000

RetryBudget_ZeroKept(tool) == tool.retries

\* tool.apiConfig.retries || 3
RetryBudget(tool) == IF tool.retries # 0 THEN tool.retries ELSE DefaultRetries

RECURSIVE Pow2(_)
Pow2(k) == IF k <= 0 THEN 1 ELSE 2 * Pow2(k - 1)

BackoffDelay_FromOne(attempt) == Pow2(attempt - 1) * BackoffUnitMs

\* Math.pow(2, attempt) * 1000
BackoffDelay(attempt) == Pow2(attempt) * BackoffUnitMs

\* what one attempt meets: a 2xx answer with a JSON body, a non-2xx answer, the
\* abort of the timeout (or a network error), a 2xx answer whose body is no JSON
Outcomes == {"ok", "http_error", "abort", "bad_body"}

NoError == [kind |-> "none", messages |-> <<>>]
Failure(kind) == [kind |-> kind, messages |-> <<>>]

AttemptError_AbortUnnamed(outcome) ==
    CASE outcome = "http_error" -> Failure("HTTP")
      [] outcome = "abort" -> NoError
      [] outcome = "bad_body" -> Failure("SyntaxError")

\* the exception an attempt raises
AttemptError(outcome) ==
    CASE outcome = "http_error" -> Failure("HTTP")
      [] outcome = "abort" -> Failure("AbortError")
      [] outcome = "bad_body" -> Failure("SyntaxError")

\* `Parameter validation failed: ${errors.join(", ")}`
ValidationError(errors) == [kind |-> "validation", messages |-> errors]

NoResult == [returned |-> FALSE, success |-> FALSE, error |-> NoError, statusCode |-> 0]
Result(success, error, statusCode) ==
    [returned |-> TRUE, success |-> success, error |-> error, statusCode |-> statusCode]

NoTool ==
    [toolId |-> MakeToolId(0, 0), parameters |-> <<>>, retries |-> 0, headers |-> {},
     method |-> "", costInWei |-> <<>>]

\* an executeTool invocation: where it is suspended, its arguments and locals;
\* outcomes and waits are the attempts made and the backoff delays slept so far,
\* response is the response being logged, logged whether usage.save() resolved
Idle ==
    [pc |-> "idle", tool |-> NoTool, parameters |-> [x \in ParamNames |-> Undefined],
     userId |-> "", sessionId |-> "", request |-> NoRequest, maxRetries |-> 0,
     attempt |-> 0, outcomes |-> <<>>, waits |-> <<>>,
     response |-> NoResult, logged |-> FALSE, result |-> NoResult]

ToolUsage_Paid(c, call, response) ==
    [call |-> c, toolId |-> call.tool.toolId, userId |-> call.userId,
     sessionId |-> call.sessionId, parameters |-> call.parameters,
     success |-> response.success, error |-> response.error,
     statusCode |-> response.statusCode,
     costInWei |-> call.tool.costInWei, paid |-> response.success]

\* new ToolUsage({...}): billing.paid is false
ToolUsage(c, call, response) ==
    [call |-> c, toolId |-> call.tool.toolId, userId |-> call.userId,
     sessionId |-> call.sessionId, parameters |-> call.parameters,
     success |-> response.success, error |-> response.error,
     statusCode |-> response.statusCode,
     costInWei |-> call.tool.costInWei, paid |-> FALSE]

\* executeTool up to its first await: validation, prepareRequest, the first fetch
ExecuteTool(c, tool, parameters, userId, sessionId) ==
    /\ calls[c].pc = "idle"
    /\ LET validationResult == ValidateParameters(tool, parameters)
           maxRetries == RetryBudget(tool)
           call == [Idle EXCEPT !.tool = tool, !.parameters = parameters,
                                !.userId = userId, !.sessionId = sessionId]
       IN calls' = [calls EXCEPT ![c] =
            IF validationResult.throws
            THEN [call EXCEPT !.pc = "save",
                              !.response = Result(FALSE, Failure("TypeError"), 0)]
            ELSE IF ~validationResult.valid
            THEN [call EXCEPT !.pc = "done",
                              !.result = Result(FALSE, ValidationError(validationResult.errors), 0)]
            ELSE IF 1 <= maxRetries
            THEN [call EXCEPT !.pc = "fetch",
                              !.request = PrepareRequest(tool, parameters),
                              !.maxRetries = maxRetries,
                              !.attempt = 1]
            ELSE [call EXCEPT !.pc = "save",
                              !.request = PrepareRequest(tool, parameters),
                              !.maxRetries = maxRetries,
                              !.attempt = 1,
                              !.response = Result(FALSE, Failure("Unknown error"), 0)]]
    /\ UNCHANGED <<requestCounts, tools, now, lastOp, ledger>>

FetchSettles_LogEachAttempt(c, outcome) ==
    /\ calls[c].pc = "fetch"
    /\ LET call == [calls[c] EXCEPT !.outcomes = Append(@, outcome)]
       IN /\ calls' = [calls EXCEPT ![c] =
                IF outcome = "ok"
                THEN [call EXCEPT !.pc = "save", !.response = Result(TRUE, NoError, 200)]
                ELSE IF call.attempt < call.maxRetries
                THEN [call EXCEPT !.pc = "backoff",
                                  !.waits = Append(@, BackoffDelay(call.attempt))]
                ELSE [call EXCEPT !.pc = "save",
                                  !.response = Result(FALSE, AttemptError(outcome), 0)]]
          /\ ledger' = IF outcome = "ok" THEN ledger
                       ELSE Append(ledger, ToolUsage(c, call,
                                       Result(FALSE, AttemptError(outcome), 0)))
    /\ UNCHANGED <<requestCounts, tools, now, lastOp>>

\* executeWithRetries: the fetch of the current attempt settles
FetchSettles(c, outcome) ==
    /\ calls[c].pc = "fetch"
    /\ LET call == [calls[c] EXCEPT !.outcomes = Append(@, outcome)]
       IN calls' = [calls EXCEPT ![c] =
            IF outcome = "ok"
            THEN [call EXCEPT !.pc = "save", !.response = Result(TRUE, NoError, 200)]
            ELSE IF call.attempt < call.maxRetries
            THEN [call EXCEPT !.pc = "backoff",
                              !.waits = Append(@, BackoffDelay(call.attempt))]
            ELSE [call EXCEPT !.pc = "save",
                              !.response = Result(FALSE, AttemptError(outcome), 0)]]
    /\ UNCHANGED <<requestCounts, tools, now, lastOp, ledger>>

\* executeWithRetries: the backoff timer fires and the loop starts the next attempt
BackoffElapses(c) ==
    /\ calls[c].pc = "backoff"
    /\ calls' = [calls EXCEPT ![c].pc = "fetch", ![c].attempt = @ + 1]
    /\ UNCHANGED <<requestCounts, tools, now, lastOp, ledger>>

UsageSaveSettles_Coalesced(c, saved) ==
    /\ calls[c].pc = "save"
    /\ LET duplicate == \E k \in 1..Len(ledger) :
                            /\ ledger[k].toolId = calls[c].tool.toolId
                            /\ ledger[k].parameters = calls[c].parameters
       IN ledger' = IF saved /\ ~duplicate
                    THEN Append(ledger, [call |-> c, toolId |-> calls[c].tool.toolId,
                                         userId |-> calls[c].userId,
                                         sessionId |-> calls[c].sessionId,
                                         parameters |-> calls[c].parameters,
                                         success |-> calls[c].response.success,
                                         error |-> calls[c].response.error,
                                         statusCode |-> calls[c].response.statusCode,
                                         costInWei |-> calls[c].tool.costInWei,
                                         paid |-> FALSE])
                    ELSE ledger
    /\ calls' = [calls EXCEPT ![c].pc = "done", ![c].logged = saved,
                               ![c].result = calls[c].response]
    /\ UNCHANGED <<requestCounts, tools, now, lastOp>>

UsageSaveSettles_Surfaced(c, saved) ==
    /\ calls[c].pc = "save"
    /\ ledger' = IF saved THEN Append(ledger, ToolUsage(c, calls[c], calls[c].response))
                 ELSE ledger
    /\ calls' = [calls EXCEPT ![c].pc = "done", ![c].logged = saved,
                               ![c].result = IF saved THEN calls[c].response
                                             ELSE Result(FALSE, Failure("save"), 0)]
    /\ UNCHANGED <<requestCounts, tools, now, lastOp>>

\* logToolUsage: usage.save() settles; a rejection is caught and logged to the
\* console; executeTool then returns the response it was logging
UsageSaveSettles(c, saved) ==
    /\ calls[c].pc = "save"
    /\ ledger' = IF saved THEN Append(ledger, ToolUsage(c, calls[c], calls[c].response))
                 ELSE ledger
    /\ calls' = [calls EXCEPT ![c].pc = "done", ![c].logged = saved,
                               ![c].result = calls[c].response]
    /\ UNCHANGED <<requestCounts, tools, now, lastOp>>

\* executeWithRetries: fetch resolves with a 2xx response, that is when the
\* status line and the headers have arrived; clearTimeout(timeoutId) disarms the
\* abort, and the attempt goes on to await response.json()
HeadersArrive(c) ==
    /\ calls[c].pc = "fetch"
    /\ calls' = [calls EXCEPT ![c].pc = "body"]
    /\ UNCHANGED <<requestCounts, tools, now, lastOp, ledger>>

\* executeWithRetries: response.json() settles, with the parsed body or with the
\* SyntaxError of a body that is no JSON
BodySettles(c, outcome) ==
    /\ calls[c].pc = "body"
    /\ LET call == [calls[c] EXCEPT !.outcomes = Append(@, outcome)]
       IN calls' = [calls EXCEPT ![c] =
            IF outcome = "ok"
            THEN [call EXCEPT !.pc = "save", !.response = Result(TRUE, NoError, 200)]
            ELSE IF call.attempt < call.maxRetries
            THEN [call EXCEPT !.pc = "backoff",
                              !.waits = Append(@, BackoffDelay(call.attempt))]
            ELSE [call EXCEPT !.pc = "save",
                              !.response = Result(FALSE, AttemptError(outcome), 0)]]
    /\ UNCHANGED <<requestCounts, tools, now, lastOp, ledger>>

----------------------------------------------------------------------------
(* Vector utilities (vectorUtils): vectors are sequences of integers *)

MaxDim == 2             \* longest vector
MaxCandidates == 3      \* longest candidate list of findMostSimilar

Components == {-1, 0, 1}

Vectors == UNION {[1..n -> Components] : n \in 0..MaxDim}

\* the loop of cosineSimilarity: the sum of vecA[i] * vecB[i] from i on
RECURSIVE SumProducts(_, _, _)
SumProducts(vecA, vecB, i) ==
    IF i > Len(vecA) THEN 0
    ELSE vecA[i] * vecB[i] + SumProducts(vecA, vecB, i + 1)

\* a number that cosineSimilarity returns. The quotient
\* dotProduct / (sqrt(normA) * sqrt(normB)) is irrational in general: it is kept
\* exactly, as the fraction num / den of its square with the sign of dotProduct
\* (den > 0), which orders as the quotient does
Similarity(num, den) == [throws |-> FALSE, num |-> num, den |-> den]
SimilarityZero == Similarity(0, 1)

\* throw new Error("Vectors must have the same length")
DimensionMismatch == [throws |-> TRUE, num |-> 0, den |-> 1]

LengthsDiffer_FirstNonEmpty(vecA, vecB) == Len(vecA) # Len(vecB) /\ Len(vecA) # 0

\* cosineSimilarity: if (vecA.length !== vecB.length)
LengthsDiffer(vecA, vecB) == Len(vecA) # Len(vecB)

\* cosineSimilarity
CosineSimilarity(vecA, vecB) ==
    IF LengthsDiffer(vecA, vecB) THEN DimensionMismatch
    ELSE IF Len(vecA) = 0 THEN SimilarityZero
    ELSE LET dotProduct == SumProducts(vecA, vecB, 1)
             normA == SumProducts(vecA, vecA, 1)
             normB == SumProducts(vecB, vecB, 1)
         IN IF normA = 0 \/ normB = 0 THEN SimilarityZero
            ELSE Similarity((IF dotProduct < 0 THEN -1 ELSE 1) * dotProduct * dotProduct,
                            normA * normB)

\* x > y and x = y on the numbers that cosineSimilarity returns
SimGreater(x, y) == x.num * y.den > y.num * x.den
SimEqual(x, y) == x.num * y.den = y.num * x.den

ComesBefore_TiesReversed(a, b) == ~SimGreater(b.similarity, a.similarity)

\* the comparator (a, b) => b.similarity - a.similarity is negative: a is
\* sorted before b
ComesBefore(a, b) == SimGreater(a.similarity, b.similarity)

\* Array.prototype.sort is stable: an item goes behind the items that do not
\* have to come after it
RECURSIVE InsertBySimilarity(_, _)
InsertBySimilarity(item, sorted) ==
    IF sorted = <<>> THEN <<item>>
    ELSE IF ComesBefore(item, Head(sorted)) THEN <<item>> \o sorted
    ELSE <<Head(sorted)>> \o InsertBySimilarity(item, Tail(sorted))

RECURSIVE SortBySimilarity(_)
SortBySimilarity(items) ==
    IF items = <<>> THEN <<>>
    ELSE InsertBySimilarity(items[Len(items)],
                            SortBySimilarity(SubSeq(items, 1, Len(items) - 1)))

\* items.slice(0, end): a negative end counts from the end of the array
Slice(items, end) ==
    LET last == IF end < 0 THEN Len(items) + end
                ELSE IF end < Len(items) THEN end ELSE Len(items)
    IN SubSeq(items, 1, last)

\* findMostSimilar: the entries { index, similarity, vector } that it returns, or
\* the exception of cosineSimilarity
FindMostSimilar(queryVector, vectors, topK) ==
    LET similarities ==
            [i \in 1..Len(vectors) |->
                [index |-> i - 1,
                 similarity |-> CosineSimilarity(queryVector, vectors[i]),
                 vector |-> vectors[i]]]
        throws == \E i \in 1..Len(vectors) : similarities[i].similarity.throws
    IN [throws |-> throws,
        out |-> IF throws THEN <<>> ELSE Slice(SortBySimilarity(similarities), topK)]

\* the arguments of the calls of findMostSimilar
QueryVectors == {<<1, 0>>, <<1, 1>>}
CandidateVectors == {<<1, 0>>, <<0, 1>>, <<1, 1>>, <<-1, 0>>, <<0, 0>>, <<1>>}
CandidateLists == UNION {[1..n -> CandidateVectors] : n \in 0..MaxCandidates}

\* the arguments of a call of a pure function that has not run yet
Pending(of, args) == [op |-> "call", of |-> of, args |-> args]

IsPending(of) == lastOp.op = "call" /\ lastOp.of = of

\* the call of cosineSimilarity runs
CosineSimilarityCall ==
    /\ IsPending("cosineSimilarity")
    /\ lastOp' = [op |-> "cosineSimilarity", vecA |-> lastOp.args[1],
                  vecB |-> lastOp.args[2],
                  ret |-> CosineSimilarity(lastOp.args[1], lastOp.args[2])]
    /\ UNCHANGED <<requestCounts, tools, now, calls, ledger>>

\* the call of findMostSimilar runs
FindMostSimilarCall ==
    /\ IsPending("findMostSimilar")
    /\ lastOp' = [op |-> "findMostSimilar", queryVector |-> lastOp.args[1],
                  vectors |-> lastOp.args[2], topK |-> lastOp.args[3],
                  ret |-> FindMostSimilar(lastOp.args[1], lastOp.args[2], lastOp.args[3])]
    /\ UNCHANGED <<requestCounts, tools, now, calls, ledger>>

----------------------------------------------------------------------------
(* Tool discovery: searchToolsGlobally, searchTools, getToolsByCategory *)

\* the numbers of an embedding. The embedding collaborator is a fixed map from
\* texts to vectors: here the sum of one vector per word of the text
WordVector(word) ==
    CASE word = "n1" -> <<1, 0>>
      [] word = "n2" -> <<0, 1>>
      [] word = "n3" -> <<1, 1>>
      [] OTHER -> <<0, 0>>

RECURSIVE SumWordVectors(_, _)
SumWordVectors(text, i) ==
    IF i > Len(text) THEN <<0, 0>>
    ELSE LET w == WordVector(text[i])
             rest == SumWordVectors(text, i + 1)
         IN <<w[1] + rest[1], w[2] + rest[2]>>

Coordinates(embedding) ==
    IF embedding = <<>> THEN <<>> ELSE SumWordVectors(embedding[1], 1)

\* String.prototype.trim on the query strings of the model
Trim(query) == IF query = " " THEN "" ELSE query

\* ToolSearchFilters (tags: no filter on tags is given)
NoFilters == [category |-> Absent, maxCost |-> NoNum, userId |-> Absent]

\* { $regex: pattern, $options: "i" }: the categories of the model are words in
\* lower case none of which contains another, so that the pattern finds a
\* match in a category exactly when it is that category
RegexMatches(pattern, text) == pattern = text

\* UTF-16 code unit of a character of a decimal numeral
CharCode(ch) ==
    CASE ch = "-" -> 45
      [] ch = "0" -> 48 [] ch = "1" -> 49 [] ch = "2" -> 50 [] ch = "3" -> 51
      [] ch = "4" -> 52 [] ch = "5" -> 53 [] ch = "6" -> 54 [] ch = "7" -> 55
      [] ch = "8" -> 56 [] ch = "9" -> 57

\* the order of MongoDB on strings: by code unit, a proper prefix first
RECURSIVE StrLess(_, _)
StrLess(a, b) ==
    IF b = <<>> THEN FALSE
    ELSE IF a = <<>> THEN TRUE
    ELSE IF Head(a) # Head(b) THEN CharCode(Head(a)) < CharCode(Head(b))
    ELSE StrLess(Tail(a), Tail(b))

\* { $lte: bound } on a string field
StrLte(a, b) == a = b \/ StrLess(a, b)

DigitChar(d) ==
    CASE d = 0 -> "0" [] d = 1 -> "1" [] d = 2 -> "2" [] d = 3 -> "3" [] d = 4 -> "4"
      [] d = 5 -> "5" [] d = 6 -> "6" [] d = 7 -> "7" [] d = 8 -> "8" [] d = 9 -> "9"

\* Number.prototype.toString of a non-negative integer
RECURSIVE NumberToString(_)
NumberToString(n) ==
    IF n < 10 THEN <<DigitChar(n)>>
    ELSE NumberToString(n \div 10) \o <<DigitChar(n % 10)>>

\* "pricing.costInWei": { $lte: maxCost.toString() }
CostWithinMax(costInWei, maxCost) == StrLte(costInWei, NumberToString(maxCost))

\* searchToolsGlobally: searchCriteria
GlobalCriteria(doc, filters) ==
    /\ doc.isActive
    /\ (Truthy(filters.userId) \/ doc.isPublic)
    /\ (Truthy(filters.category) => RegexMatches(filters.category, doc.category))
    /\ (filters.maxCost.def => CostWithinMax(doc.costInWei, filters.maxCost.v))
    /\ (Truthy(filters.userId) => doc.userId = filters.userId)

OwnerCriteria_Inactive(doc, userId, category) ==
    /\ doc.userId = userId
    /\ (Truthy(category) => RegexMatches(category, doc.category))

\* searchTools: searchCriteria
OwnerCriteria(doc, userId, category) ==
    /\ doc.userId = userId
    /\ doc.isActive
    /\ (Truthy(category) => RegexMatches(category, doc.category))

\* getToolsByCategory: searchCriteria
CategoryCriteria(doc, category, maxCost) ==
    /\ doc.isActive
    /\ doc.isPublic
    /\ RegexMatches(category, doc.category)
    /\ (maxCost.def => CostWithinMax(doc.costInWei, maxCost.v))

\* ApiTool.find(searchCriteria): the positions of the matching documents, in
\* the order of the collection
Find(matching) ==
    SelectSeq([i \in 1..Len(tools) |-> i], LAMBDA i : i \in matching)

RECURSIVE Reverse(_)
Reverse(items) ==
    IF items = <<>> THEN <<>> ELSE Reverse(Tail(items)) \o <<Head(items)>>

\* the ranking of searchToolsGlobally and searchTools: filter on the embedding,
\* map to { tool, similarity }, sort, slice
RankTools(queryEmbedding, found, limit) ==
    LET withEmbedding == SelectSeq(found, LAMBDA i : Len(tools[i].embedding) > 0)
        toolsWithScores ==
            [k \in 1..Len(withEmbedding) |->
                [tool |-> withEmbedding[k],
                 similarity |-> CosineSimilarity(Coordinates(queryEmbedding),
                                                 Coordinates(tools[withEmbedding[k]].embedding))]]
        throws == \E k \in 1..Len(withEmbedding) : toolsWithScores[k].similarity.throws
    IN [throws |-> throws,
        out |-> IF throws THEN <<>> ELSE Slice(SortBySimilarity(toolsWithScores), limit)]

\* the query is refused: !query || query.trim() === ""
EmptyQuery(query) == ~Truthy(query) \/ Trim(query) = ""

\* what a search leaves in lastOp: its arguments, whether it threw, and the
\* { tool, similarity } entries of the tools it returned (tool: the position of
\* the document in the collection)
SearchOp(op, query, filters, limit, threw, out) ==
    [op |-> op, query |-> query, filters |-> filters, limit |-> limit,
     threw |-> threw, out |-> out]

SearchToolsGlobally(query, filters, limit, embedOk) ==
    /\ LET ranked == RankTools(EmbedQuery(<<Trim(query)>>),
                               Find({i \in 1..Len(tools) : GlobalCriteria(tools[i], filters)}), limit)
           threw == EmptyQuery(query) \/ ~embedOk \/ ranked.throws
       IN lastOp' = SearchOp("searchToolsGlobally", query, filters, limit, threw,
                             IF threw THEN <<>> ELSE ranked.out)
    /\ UNCHANGED <<requestCounts, tools, now, calls, ledger>>

SearchTools(userId, query, category, limit, embedOk) ==
    /\ LET ranked == RankTools(EmbedQuery(<<Trim(query)>>),
                               Find({i \in 1..Len(tools) : OwnerCriteria(tools[i], userId, category)}), limit)
           threw == EmptyQuery(query) \/ ~embedOk \/ ranked.throws
       IN lastOp' = SearchOp("searchTools", query,
                             [NoFilters EXCEPT !.userId = userId, !.category = category],
                             limit, threw, IF threw THEN <<>> ELSE ranked.out)
    /\ UNCHANGED <<requestCounts, tools, now, calls, ledger>>

\* getToolsByCategory: find, sort({ createdAt: -1 }), limit; the documents are
\* created in the order of the collection
GetToolsByCategory(category, maxCost, limit) ==
    /\ LET found == Find({i \in 1..Len(tools) : CategoryCriteria(tools[i], category, maxCost)})
           out == Slice(Reverse(found), limit)
       IN lastOp' = SearchOp("getToolsByCategory", "",
                             [NoFilters EXCEPT !.category = category, !.maxCost = maxCost],
                             limit, FALSE,
                             [k \in 1..Len(out) |-> [tool |-> out[k], similarity |-> SimilarityZero]])
    /\ UNCHANGED <<requestCounts, tools, now, calls, ledger>>

BrowseCriteria_AllActive(doc, userId, category, maxCost, myTools) ==
    /\ doc.isActive
    /\ (myTools => doc.userId = userId)
    /\ (Truthy(category) => RegexMatches(category, doc.category))
    /\ (maxCost.def => CostWithinMax(doc.costInWei, maxCost.v))

\* AppController.searchTools without a query: searchCriteria
BrowseCriteria(doc, userId, category, maxCost, myTools) ==
    /\ doc.isActive
    /\ (IF myTools THEN doc.userId = userId ELSE doc.isPublic)
    /\ (Truthy(category) => RegexMatches(category, doc.category))
    /\ (maxCost.def => CostWithinMax(doc.costInWei, maxCost.v))

\* AppController.searchTools: the tools of the response, as { tool, similarity }
\* entries (tool: the position of the document); with a query the filters are
\* handed to searchToolsGlobally, without one the handler runs its own find,
\* newest first. maxCost is the amount in wei that ethToWei makes of the
\* parameter; threw: the handler answers 500
AppSearchResult(userId, query, category, maxCost, myTools, limit) ==
    IF ~EmptyQuery(query)
    THEN LET filters == [NoFilters EXCEPT !.category = category, !.maxCost = maxCost,
                                          !.userId = IF myTools THEN userId ELSE Absent]
             ranked == RankTools(EmbedQuery(<<Trim(query)>>),
                                 Find({i \in 1..Len(tools) : GlobalCriteria(tools[i], filters)}),
                                 limit)
         IN [threw |-> ranked.throws, out |-> IF ranked.throws THEN <<>> ELSE ranked.out]
    ELSE LET found == Find({i \in 1..Len(tools) :
                              BrowseCriteria(tools[i], userId, category, maxCost, myTools)})
             out == Slice(Reverse(found), limit)
         IN [threw |-> FALSE,
             out |-> [k \in 1..Len(out) |-> [tool |-> out[k], similarity |-> SimilarityZero]]]

\* AppController.searchTools for the caller userId of the token
AppSearchTools(userId, query, category, maxCost, myTools, limit) ==
    /\ LET result == AppSearchResult(userId, query, category, maxCost, myTools, limit)
       IN lastOp' = [op |-> "searchToolsEndpoint", userId |-> userId, query |-> query,
                     category |-> category, maxCost |-> maxCost, myTools |-> myTools,
                     limit |-> limit, threw |-> result.threw, out |-> result.out]
    /\ UNCHANGED <<requestCounts, tools, now, calls, ledger>>

----------------------------------------------------------------------------
(* Tool health (AppController.getToolHealthStatus): a success rate is a     *)
(* number of hundredths, an execution time a number of milliseconds         *)

RateScale == 100
HealthyMinRate == 95        \* successRate >= 0.95
HealthyMaxMs == 5000        \* avgExecutionTime < 5000
WarningMinRate == 85        \* successRate >= 0.85
WarningMaxMs == 10000       \* avgExecutionTime < 10000

FastEnough_Inclusive(avgExecutionTime, maxMs) == avgExecutionTime <= maxMs

\* avgExecutionTime < 5000, avgExecutionTime < 10000
FastEnough(avgExecutionTime, maxMs) == avgExecutionTime < maxMs

\* getToolHealthStatus
GetToolHealthStatus(successRate, avgExecutionTime) ==
    IF successRate >= HealthyMinRate /\ FastEnough(avgExecutionTime, HealthyMaxMs)
    THEN "healthy"
    ELSE IF successRate >= WarningMinRate /\ FastEnough(avgExecutionTime, WarningMaxMs)
    THEN "warning"
    ELSE "critical"

\* the arguments of the calls of getToolHealthStatus
SuccessRates == {0, 50, 84, 85, 90, 94, 95, 96, 100}
ExecutionTimes == {0, 3000, 4999, 5000, 5001, 8000, 9999, 10000, 10001, 60000}

\* the call of getToolHealthStatus runs
GetToolHealthStatusCall ==
    /\ IsPending("getToolHealthStatus")
    /\ lastOp' = [op |-> "getToolHealthStatus", successRate |-> lastOp.args[1],
                  avgExecutionTime |-> lastOp.args[2],
                  ret |-> GetToolHealthStatus(lastOp.args[1], lastOp.args[2])]
    /\ UNCHANGED <<requestCounts, tools, now, calls, ledger>>

----------------------------------------------------------------------------
(* EthUtils: a wei amount is a decimal numeral, a sequence of digits without *)
(* leading zero. The amounts of the model are a mantissa of one or two      *)
(* digits followed by zeros: each of them is a double exactly, and so are   *)
(* the numbers that weiToEth and formatWei compute from them up to the      *)
(* digits that toFixed prints                                               *)

MaxZeros == 19      \* most zeros behind the mantissa of a wei amount

EthDecimals == 18           \* 1e18 wei in one ETH
MilliEthDecimals == 15      \* eth * 1000
EthFractionDigits == 6      \* weiToEthString: decimals = 6
MilliEthFractionDigits == 3 \* toFixed(3)

Zeros(k) == [i \in 1..k |-> "0"]

Mantissas == {<<"1">>, <<"2">>, <<"5">>, <<"1", "5">>, <<"2", "5">>}

WeiAmounts == {<<"0">>} \cup {m \o Zeros(k) : m \in Mantissas, k \in 0..MaxZeros}

\* Number(BigInt(weiAmount)) / 10^e as a decimal: the integer digits and the
\* e fraction digits
ShiftPoint(weiAmount, e) ==
    LET padded == Zeros(e + 1 - Len(weiAmount)) \o weiAmount
    IN [int |-> SubSeq(padded, 1, Len(padded) - e),
        frac |-> SubSeq(padded, Len(padded) - e + 1, Len(padded))]

\* Number.prototype.toFixed(d) of a decimal whose fraction digits behind the
\* d-th are zeros
ToFixed(decimal, d) == decimal.int \o <<".">> \o SubSeq(decimal.frac, 1, d)

\* the number is at least 10^e: the numeral has more than e digits
AtLeastPowerOfTen(weiAmount, e) == Len(weiAmount) > e

\* str.replace(/\.?0+$/, ""): the zeros at the end of the string, with the
\* point in front of them, are removed
TrimZeros(str) ==
    LET zerosFrom == CHOOSE i \in 1..(Len(str) + 1) :
                         /\ \A j \in i..Len(str) : str[j] = "0"
                         /\ (i > 1 => str[i - 1] # "0")
        from == IF zerosFrom > Len(str) THEN zerosFrom
                ELSE IF zerosFrom > 1 /\ str[zerosFrom - 1] = "." THEN zerosFrom - 1
                ELSE zerosFrom
    IN SubSeq(str, 1, from - 1)

\* weiToEthString(weiAmount): eth.toFixed(6).replace(/\.?0+$/, "")
WeiToEthString(weiAmount) ==
    TrimZeros(ToFixed(ShiftPoint(weiAmount, EthDecimals), EthFractionDigits))

\* `${number} ${unit}`
Formatted(number, unit) == [number |-> number, unit |-> unit]

\* formatWei
FormatWei(weiAmount) ==
    IF AtLeastPowerOfTen(weiAmount, EthDecimals)
    THEN Formatted(WeiToEthString(weiAmount), "ETH")
    ELSE IF AtLeastPowerOfTen(weiAmount, MilliEthDecimals)
    THEN Formatted(ToFixed(ShiftPoint(weiAmount, MilliEthDecimals), MilliEthFractionDigits),
                   "mETH")
    ELSE Formatted(weiAmount, "wei")

\* the call of formatWei runs
FormatWeiCall ==
    /\ IsPending("formatWei")
    /\ lastOp' = [op |-> "formatWei", weiAmount |-> lastOp.args[1],
                  ret |-> FormatWei(lastOp.args[1])]
    /\ UNCHANGED <<requestCounts, tools, now, calls, ledger>>

----------------------------------------------------------------------------
(* The rate limiter (middleware/rateLimiter) behind the authentication of   *)
(* the app routes                                                           *)

WindowMs == 1           \* windowMs of the limiter
MaxRequests == 2        \* max of the limiter

\* req.ip of the clients
ClientIds == {"ip1", "ip2"}

\* requestCounts.get(clientId) of a client without an entry is undefined
NoClientData == [present |-> FALSE, count |-> 0, resetTime |-> 0]
ClientData(count, resetTime) == [present |-> TRUE, count |-> count, resetTime |-> resetTime]

\* new Map()
NoRequestCounts == [clientId \in ClientIds |-> NoClientData]

WindowOver_AtResetTime(clientData) == now >= clientData.resetTime

\* now > clientData.resetTime
WindowOver(clientData) == now > clientData.resetTime

\* what a request leaves in lastOp: the client, whether it carried a token
\* that verifies, the status of the answer of the middleware (0: next() was
\* called and the handler answers), and the time
RequestOp(clientId, authorized, status) ==
    [op |-> "request", clientId |-> clientId, authorized |-> authorized,
     status |-> status, at |-> now]

\* the middleware that createLimiter(windowMs, max) returns
Limiter(windowMs, max, clientId) ==
    LET clientData == requestCounts[clientId]
    IN IF ~clientData.present \/ WindowOver(clientData)
       THEN /\ requestCounts' = [requestCounts EXCEPT
                                     ![clientId] = ClientData(1, now + windowMs)]
            /\ lastOp' = RequestOp(clientId, TRUE, 0)
       ELSE IF clientData.count >= max
       THEN /\ requestCounts' = requestCounts
            /\ lastOp' = RequestOp(clientId, TRUE, 429)
       ELSE /\ requestCounts' = [requestCounts EXCEPT ![clientId].count = @ + 1]
            /\ lastOp' = RequestOp(clientId, TRUE, 0)

\* a request to an app route: router.use(firebaseAuth) answers 401 without
\* next() when the token is missing or does not verify; router.use(generalLimiter)
\* comes after it
AppRoute(clientId, authorized) ==
    /\ IF authorized
       THEN Limiter(WindowMs, MaxRequests, clientId)
       ELSE /\ requestCounts' = requestCounts
            /\ lastOp' = RequestOp(clientId, FALSE, 401)
    /\ UNCHANGED <<tools, now, calls, ledger>>

Request == \E clientId \in ClientIds, authorized \in BOOLEAN : AppRoute(clientId, authorized)

NextLimiter == Request \/ Tick

----------------------------------------------------------------------------
(* Initial state: empty collections, no call in progress *)

CallIds == {"c1"}

Init ==
    /\ tools = <<>>
    /\ now = 0
    /\ lastOp = NoOp
    /\ calls = [c \in CallIds |-> Idle]
    /\ ledger = <<>>
    /\ requestCounts = NoRequestCounts

SpecLimiter == Init /\ [][NextLimiter]_vars

----------------------------------------------------------------------------
(* The registry: registration alone; registration and update; registration *)
(* and deactivation                                                        *)

RegisterAny ==
    \E u \in Users, d \in ToolData, r \in 1..NumRand, embedOk \in BOOLEAN, dbOk \in BOOLEAN :
        RegisterApiTool(u, d, r, embedOk, dbOk)

NextRegister == RegisterAny \/ Tick

SpecRegister == Init /\ [][NextRegister]_vars

\* registrations by one user
Register ==
    \E d \in ToolData, r \in 1..NumRand, embedOk \in BOOLEAN, dbOk \in BOOLEAN :
        RegisterApiTool("u1", d, r, embedOk, dbOk)

\* the toolIds a caller passes: those of the stored tools, and one of no tool
TargetIds == StoredIds \cup {MakeToolId(0, 0)}

Update == \E id \in TargetIds, p \in Patches, embedOk \in BOOLEAN : UpdateTool(id, p, embedOk)

NextUpdate == Register \/ Update

SpecUpdate == Init /\ [][NextUpdate]_vars

Deactivate == \E id \in TargetIds : DeactivateTool(id)

NextDeactivate == Register \/ Deactivate \/ Tick

SpecDeactivate == Init /\ [][NextDeactivate]_vars

\* the prices a caller sends to updateTool: decimal, negative, hexadecimal,
\* not a number, empty
PricePatches ==
    {[NoPatch EXCEPT !.costInWei = cost] :
        cost \in {<<"7">>, <<"1", "0">>, <<"-", "1">>, <<"0", "x", "1", "0">>,
                  <<"a", "b", "c">>, <<>>}}

UpdatePrice == \E id \in TargetIds, p \in PricePatches : UpdateTool(id, p, TRUE)

NextPricing == Register \/ UpdatePrice

SpecPricing == Init /\ [][NextPricing]_vars

----------------------------------------------------------------------------
(* The execution engine: executeTool calls on the tools of ExecTools *)

Execute ==
    \E c \in CallIds, tool \in ExecTools, parameters \in ParamMaps :
        ExecuteTool(c, tool, parameters, "u1", "s1")

Fetch == \E c \in CallIds, outcome \in Outcomes : FetchSettles(c, outcome)

Backoff == \E c \in CallIds : BackoffElapses(c)

Save == \E c \in CallIds, saved \in BOOLEAN : UsageSaveSettles(c, saved)

NextExec == Execute \/ Fetch \/ Backoff \/ Save

SpecExec == Init /\ [][NextExec]_vars

\* the attempts seen in their two awaits: the fetch ends with a non-2xx
\* response, with the abort of the timer or with the headers of a 2xx response;
\* the body of a 2xx response is read after the timer was cleared
TimedTools ==
    [toolId : {MakeToolId(0, 1)},
     parameters : {<<ParamSpec("q", "string", TRUE, NoValidation)>>},
     retries : -1..MaxRetries, headers : {{}}, method : Methods,
     costInWei : {<<"5">>}]

ExecuteTimed ==
    \E c \in CallIds, tool \in TimedTools, q \in {Undefined, Str("a")} :
        ExecuteTool(c, tool, [q |-> q, n |-> Undefined], "u1", "s1")

FetchFails(c) == \E outcome \in {"http_error", "abort"} : FetchSettles(c, outcome)

FetchEnds == \E c \in CallIds : FetchFails(c) \/ HeadersArrive(c)

BodyRead == \E c \in CallIds, outcome \in {"ok", "bad_body"} : BodySettles(c, outcome)

NextTimed == ExecuteTimed \/ FetchEnds \/ BodyRead \/ Backoff \/ Save

\* the timer of an attempt ends its fetch, the timer of a backoff fires, and the
\* database answers the save; nothing ends the read of a body
FairTimed ==
    \A c \in CallIds :
        /\ WF_vars(FetchFails(c) \/ HeadersArrive(c))
        /\ WF_vars(BackoffElapses(c))
        /\ WF_vars(\E saved \in BOOLEAN : UsageSaveSettles(c, saved))

SpecTimed == Init /\ [][NextTimed]_vars /\ FairTimed

----------------------------------------------------------------------------
(* The marketplace: tools are registered, renamed and repriced, deactivated *)
(* and executed through the controller                                      *)

\* the declarations and apiConfig of the stored tools: one required string
\* parameter, one attempt, a POST without headers of its own
ExecToolOf(doc) ==
    [toolId |-> doc.toolId,
     parameters |-> <<ParamSpec("q", "string", TRUE, NoValidation)>>,
     retries |-> 1, headers |-> {}, method |-> "POST", costInWei |-> doc.costInWei]

\* AppController.executeTool: findOne({ toolId, "metadata.isActive": true }),
\* then toolExecutorService.executeTool on the document found; without a
\* document the handler answers 404 and nothing changes
ControllerExecuteTool(c, toolId, parameters, userId, sessionId) ==
    \E i \in 1..Len(tools) :
        /\ tools[i].toolId = toolId
        /\ tools[i].isActive
        /\ ExecuteTool(c, ExecToolOf(tools[i]), parameters, userId, sessionId)

FindOneActive_AnyState(toolId) ==
    IF \E i \in 1..Len(tools) : tools[i].toolId = toolId
    THEN CHOOSE i \in 1..Len(tools) : tools[i].toolId = toolId
    ELSE 0

\* ApiTool.findOne({ toolId, "metadata.isActive": true }): the position of the
\* document found, 0 for null
FindOneActive(toolId) ==
    IF \E i \in 1..Len(tools) : tools[i].toolId = toolId /\ tools[i].isActive
    THEN CHOOSE i \in 1..Len(tools) : tools[i].toolId = toolId /\ tools[i].isActive
    ELSE 0

\* res.status(404).json({ success: false, message: "Tool not found or inactive" })
NotFoundOrInactive(toolId) == [op |-> "executeTool", toolId |-> toolId, status |-> 404]

\* AppController.executeTool with a toolId and parameters: the lookup, then
\* either the 404 answer or the engine's executeTool up to its first await
AppExecuteTool(c, toolId, parameters, userId, sessionId) ==
    LET i == FindOneActive(toolId)
    IN IF i = 0
       THEN /\ lastOp' = NotFoundOrInactive(toolId)
            /\ UNCHANGED <<requestCounts, tools, now, calls, ledger>>
       ELSE ExecuteTool(c, ExecToolOf(tools[i]), parameters, userId, sessionId)

\* the patches of a caller who also sends a toolId: the toolId of a stored tool,
\* a toolId of no tool, and a new price alone
IdPatches ==
    { [NoPatch EXCEPT !.toolId = MakeToolId(0, 1)],
      [NoPatch EXCEPT !.toolId = MakeToolId(0, 0), !.costInWei = <<"7">>],
      [NoPatch EXCEPT !.costInWei = <<"7">>] }

UpdateIdentity == \E id \in TargetIds, p \in IdPatches : UpdateTool(id, p, TRUE)

ExecuteStored ==
    \E c \in CallIds, id \in TargetIds :
        ControllerExecuteTool(c, id, [q |-> Str("a"), n |-> Undefined], "u2", "s1")

NextIdentity == Register \/ UpdateIdentity \/ Deactivate \/ ExecuteStored \/ Fetch \/ Save

SpecIdentity == Init /\ [][NextIdentity]_vars

----------------------------------------------------------------------------
(* Discovery over the tools of two owners, public and private, some of them *)
(* deactivated                                                              *)

SearchToolData ==
    [name : Names, description : Descriptions, category : Categories,
     paramText : ParamTexts, costInWei : {<<"5">>}, isPublic : BOOLEAN]

\* (the random parts of the toolIds differ as long as NumRand allows)
RegisterForSearch ==
    \E u \in Users, d \in SearchToolData :
        RegisterApiTool(u, d, (Len(tools) % NumRand) + 1, TRUE, TRUE)

\* the arguments of the searches: filters.userId is none, the empty string or
\* an owner
GlobalSearches ==
    { <<"n1", Absent, Absent, MaxTools, TRUE>>,
      <<"n1", "", "c1", MaxTools, TRUE>>,
      <<"n1", "u1", Absent, MaxTools, TRUE>>,
      <<"n1", "u1", "c1", 1, TRUE>>,
      <<" ", Absent, Absent, 1, TRUE>>,
      <<"n1", Absent, "c1", 1, FALSE>> }

SearchGlobally ==
    \E a \in GlobalSearches :
        SearchToolsGlobally(a[1], [NoFilters EXCEPT !.userId = a[2], !.category = a[3]],
                            a[4], a[5])

SearchOwn ==
    \E userId \in Users, limit \in {1, MaxTools} :
        SearchTools(userId, "n1", Absent, limit, TRUE)

NextSearch == RegisterForSearch \/ Deactivate \/ SearchGlobally \/ SearchOwn

SpecSearch == Init /\ [][NextSearch]_vars

----------------------------------------------------------------------------
(* Ranking: findMostSimilar on given vectors, and searchToolsGlobally over  *)
(* tools whose names give them different embeddings                         *)

\* the requests of the search endpoint: caller, q, category, maxCost, myTools,
\* limit
EndpointSearches ==
    { <<"u1", "n1", Absent, NoNum, FALSE, MaxTools>>,
      <<"u1", "n1", "c1", SomeNum(10), TRUE, MaxTools>>,
      <<"u1", "", Absent, NoNum, FALSE, MaxTools>>,
      <<"u1", " ", "c1", NoNum, TRUE, 1>>,
      <<"u2", "", Absent, SomeNum(10), FALSE, 1>>,
      <<"u2", "n1", Absent, NoNum, FALSE, 1>> }

SearchEndpoint ==
    \E a \in EndpointSearches : AppSearchTools(a[1], a[2], a[3], a[4], a[5], a[6])

NextBrowse == RegisterForSearch \/ Deactivate \/ SearchEndpoint

SpecBrowse == Init /\ [][NextBrowse]_vars

InitRank ==
    /\ tools = <<>>
    /\ now = 0
    /\ lastOp \in {Pending("findMostSimilar", <<queryVector, vectors, topK>>) :
                       queryVector \in QueryVectors, vectors \in CandidateLists,
                       topK \in 0..(MaxCandidates + 1)}
    /\ calls = [c \in CallIds |-> Idle]
    /\ ledger = <<>>
    /\ requestCounts = NoRequestCounts

RankToolData ==
    [name : {"n1", "n3"}, description : Descriptions, category : Categories,
     paramText : ParamTexts, costInWei : {<<"5">>}, isPublic : {TRUE}]

RegisterForRank ==
    \E d \in RankToolData : RegisterApiTool("u1", d, (Len(tools) % NumRand) + 1, TRUE, TRUE)

SearchRanked ==
    \E query \in {"n1", "n2", "zz"}, limit \in 0..MaxTools :
        SearchToolsGlobally(query, NoFilters, limit, TRUE)

NextRank == FindMostSimilarCall \/ RegisterForRank \/ SearchRanked

SpecRank == InitRank /\ [][NextRank]_vars

----------------------------------------------------------------------------
(* Discovery with a cost ceiling over tools whose costs have one and two    *)
(* digits                                                                   *)

CostToolData ==
    [name : Names, description : Descriptions, category : Categories,
     paramText : ParamTexts, costInWei : {<<"9">>, <<"1", "0">>, <<"1", "1">>},
     isPublic : {TRUE}]

RegisterForCost ==
    \E d \in CostToolData : RegisterApiTool("u1", d, (Len(tools) % NumRand) + 1, TRUE, TRUE)

MaxCosts == {5, 10}

SearchByCost ==
    \E maxCost \in MaxCosts :
        SearchToolsGlobally("n1", [NoFilters EXCEPT !.maxCost = SomeNum(maxCost)],
                            MaxTools, TRUE)

CategoryByCost ==
    \E maxCost \in MaxCosts : GetToolsByCategory("c1", SomeNum(maxCost), MaxTools)

NextCost == RegisterForCost \/ Deactivate \/ SearchByCost \/ CategoryByCost

SpecCost == Init /\ [][NextCost]_vars

----------------------------------------------------------------------------
(* The execute endpoint: callers name stored tools, deactivated tools and    *)
(* tools that were never registered                                          *)

ExecuteByToolId ==
    \E c \in CallIds, id \in TargetIds :
        AppExecuteTool(c, id, [q |-> Str("a"), n |-> Undefined], "u2", "s1")

RegisterExecutable ==
    \E d \in ToolData :
        RegisterApiTool("u1", d, (Len(tools) % NumRand) + 1, TRUE, TRUE)

DeactivateExecutable == \E id \in StoredIds : DeactivateTool(id)

NextEndpoint ==
    \/ RegisterExecutable \/ DeactivateExecutable \/ ExecuteByToolId
    \/ Fetch \/ Save

SpecEndpoint == Init /\ [][NextEndpoint]_vars

----------------------------------------------------------------------------
(* The ledger and its readers: tools of two owners are registered, repriced, *)
(* deactivated, searched and executed; owners ask for their usage and       *)
(* revenue                                                                  *)

\* the toolIds of the active tools of userId: userTools.map(tool => tool.toolId)
UserToolIds(userId) ==
    {tools[i].toolId : i \in {j \in 1..Len(tools) :
                                 tools[j].userId = userId /\ tools[j].isActive}}

\* getToolUsageAnalytics: matchCriteria (the records of the model are all
\* younger than startDate)
UsageMatchCriteria(record, toolIds, toolId) ==
    IF toolId # AbsentId THEN record.toolId = toolId ELSE record.toolId \in toolIds

\* AppController.getToolUsageAnalytics: the UsageRecords that the summaries are
\* aggregated from (none when the user has no active tool)
GetToolUsageAnalytics(userId, toolId) ==
    /\ LET toolIds == UserToolIds(userId)
           matched == IF toolIds = {} THEN {}
                      ELSE {k \in 1..Len(ledger) :
                               UsageMatchCriteria(ledger[k], toolIds, toolId)}
       IN lastOp' = [op |-> "getToolUsageAnalytics", userId |-> userId,
                     toolId |-> toolId, matched |-> matched]
    /\ UNCHANGED <<requestCounts, tools, now, calls, ledger>>

\* AppController.getToolRevenue: the UsageRecords that revenueAggregation matches
GetToolRevenue(userId) ==
    /\ LET toolIds == UserToolIds(userId)
           matched == {k \in 1..Len(ledger) :
                          ledger[k].toolId \in toolIds /\ ledger[k].paid}
       IN lastOp' = [op |-> "getToolRevenue", userId |-> userId,
                     toolId |-> AbsentId, matched |-> matched]
    /\ UNCHANGED <<requestCounts, tools, now, calls, ledger>>

OwnedToolData ==
    [name : Names, description : Descriptions, category : Categories,
     paramText : ParamTexts, costInWei : {<<"5">>}, isPublic : {TRUE}]

RegisterOwned ==
    \E u \in Users, d \in OwnedToolData :
        RegisterApiTool(u, d, (Len(tools) % NumRand) + 1, TRUE, TRUE)

Reprice ==
    \E id \in StoredIds : UpdateTool(id, [NoPatch EXCEPT !.costInWei = <<"7">>], TRUE)

DeactivateStored == \E id \in StoredIds : DeactivateTool(id)

FetchAnswered == \E c \in CallIds, outcome \in {"ok", "http_error"} : FetchSettles(c, outcome)

SearchPublic == SearchToolsGlobally("n1", NoFilters, 1, TRUE)

Analytics ==
    \E userId \in Users, toolId \in StoredIds \cup {AbsentId} :
        GetToolUsageAnalytics(userId, toolId)

Revenue == \E userId \in Users : GetToolRevenue(userId)

NextLedger ==
    \/ RegisterOwned \/ Reprice \/ DeactivateStored \/ ExecuteStored
    \/ FetchAnswered \/ Save \/ SearchPublic \/ Analytics \/ Revenue

SpecLedger == Init /\ [][NextLedger]_vars

\* the billing of one owner's tools: registered, repriced, deactivated and
\* executed, with the owner's revenue asked for in between
RegisterBilled ==
    \E d \in OwnedToolData :
        RegisterApiTool("u1", d, (Len(tools) % NumRand) + 1, TRUE, TRUE)

AnalyticsOfOwner == GetToolUsageAnalytics("u1", AbsentId)

NextBilling ==
    \/ RegisterBilled \/ Reprice \/ DeactivateStored \/ ExecuteStored
    \/ FetchAnswered \/ Save \/ SearchPublic \/ AnalyticsOfOwner \/ Revenue

SpecBilling == Init /\ [][NextBilling]_vars

----------------------------------------------------------------------------
(* The pure functions, each applied to arguments that the initial state draws *)

InitHealth ==
    /\ tools = <<>>
    /\ now = 0
    /\ lastOp \in {Pending("getToolHealthStatus", <<successRate, avgExecutionTime>>) :
                       successRate \in SuccessRates, avgExecutionTime \in ExecutionTimes}
    /\ calls = [c \in CallIds |-> Idle]
    /\ ledger = <<>>
    /\ requestCounts = NoRequestCounts

NextHealth == GetToolHealthStatusCall

SpecHealth == InitHealth /\ [][NextHealth]_vars

InitFormat ==
    /\ tools = <<>>
    /\ now = 0
    /\ lastOp \in {Pending("formatWei", <<weiAmount>>) : weiAmount \in WeiAmounts}
    /\ calls = [c \in CallIds |-> Idle]
    /\ ledger = <<>>
    /\ requestCounts = NoRequestCounts

NextFormat == FormatWeiCall

SpecFormat == InitFormat /\ [][NextFormat]_vars

InitVector ==
    /\ tools = <<>>
    /\ now = 0
    /\ lastOp \in {Pending("cosineSimilarity", <<vecA, vecB>>) :
                       vecA \in Vectors, vecB \in Vectors}
    /\ calls = [c \in CallIds |-> Idle]
    /\ ledger = <<>>
    /\ requestCounts = NoRequestCounts

NextVector == CosineSimilarityCall

SpecVector == InitVector /\ [][NextVector]_vars

----------------------------------------------------------------------------
(* Concurrent executeTool calls: each call is suspended at its own await and *)
(* the event loop resumes them in any order                                 *)

ConcurrentCallIds == {"c1", "c2"}

InitConcurrent ==
    /\ tools = <<>>
    /\ now = 0
    /\ lastOp = NoOp
    /\ calls = [c \in ConcurrentCallIds |-> Idle]
    /\ ledger = <<>>
    /\ requestCounts = NoRequestCounts

\* the tool that the concurrent calls run: one attempt less than the largest
\* budget
ConcurrentTool ==
    [toolId |-> MakeToolId(0, 1),
     parameters |-> <<ParamSpec("q", "string", TRUE, NoValidation)>>,
     retries |-> MaxRetries - 1, headers |-> {}, method |-> "POST", costInWei |-> <<"5">>]

\* the arguments of the concurrent calls: parameters, userId, sessionId
ConcurrentArgs ==
    { <<[q |-> Str("a"), n |-> Undefined], "u1", "s1">>,
      <<[q |-> Str("b"), n |-> Undefined], "u2", "s2">> }

ExecuteConcurrent ==
    \E c \in ConcurrentCallIds, a \in ConcurrentArgs :
        ExecuteTool(c, ConcurrentTool, a[1], a[2], a[3])

FetchConcurrent ==
    \E c \in ConcurrentCallIds, outcome \in {"ok", "http_error"} : FetchSettles(c, outcome)

BackoffConcurrent == \E c \in ConcurrentCallIds : BackoffElapses(c)

SaveConcurrent == \E c \in ConcurrentCallIds, saved \in BOOLEAN : UsageSaveSettles(c, saved)

NextConcurrent ==
    ExecuteConcurrent \/ FetchConcurrent \/ BackoffConcurrent \/ SaveConcurrent

SpecConcurrent == InitConcurrent /\ [][NextConcurrent]_vars

----------------------------------------------------------------------------
(* Properties of the execution engine *)

\* the UsageRecords that the call c wrote
RecordsOf(c) == {k \in 1..Len(ledger) : ledger[k].call = c}

Started(c) == calls[c].pc # "idle"

PassesValidation(c) ==
    Started(c) /\ ValidateParameters(calls[c].tool, calls[c].parameters).valid

\* the tool declares a required parameter that the parameter map lacks
MissingRequired(c) ==
    \E i \in 1..Len(calls[c].tool.parameters) :
        /\ calls[c].tool.parameters[i].required
        /\ IsMissing(calls[c].parameters[calls[c].tool.parameters[i].name])

\* C1: a call that lacks a required parameter returns a failure carrying the
\* validation message, and exactly one UsageRecord of the call is in the
\* ledger, with response.success = false and billing.paid = false
C1_MissingRequiredIsRecorded ==
    \A c \in CallIds :
        (calls[c].pc = "done" /\ MissingRequired(c)) =>
            /\ ~calls[c].result.success
            /\ calls[c].result.error.kind = "validation"
            /\ Cardinality(RecordsOf(c)) = 1
            /\ \A k \in RecordsOf(c) : ~ledger[k].success /\ ~ledger[k].paid

AllNon2xx(c) == \A k \in 1..Len(calls[c].outcomes) : calls[c].outcomes[k] = "http_error"

\* the retry loop of the call is over
LoopEnded(c) == calls[c].pc \in {"save", "done"}

\* C3: with apiConfig.retries = N >= 1 and an endpoint that answers every
\* request with a non-2xx status, the call makes exactly N attempts, sleeps
\* 2^(n-1) seconds before attempt n (n = 2..N) and not after the last attempt,
\* and returns a failure
C3_RetryExhaustion ==
    \A c \in CallIds :
        (PassesValidation(c) /\ calls[c].tool.retries >= 1 /\ AllNon2xx(c)) =>
            LET N == calls[c].tool.retries
                made == Len(calls[c].outcomes)
                slept == Len(calls[c].waits)
            IN /\ made <= N
               /\ \A n \in 2..(slept + 1) : calls[c].waits[n - 1] = (2 ^ (n - 1)) * 1000
               /\ calls[c].pc = "fetch" => slept = made
               /\ calls[c].pc = "backoff" => slept = made /\ made < N
               /\ LoopEnded(c) => made = N /\ slept = N - 1 /\ ~calls[c].response.success
               /\ calls[c].pc = "done" => calls[c].result.returned /\ ~calls[c].result.success

C3_Witness ==
    \E c \in CallIds :
        /\ calls[c].pc = "done"
        /\ calls[c].tool.retries = 3
        /\ calls[c].outcomes = <<"http_error", "http_error", "http_error">>
        /\ calls[c].waits = <<2000, 4000>>
        /\ ~calls[c].result.success

\* the attempt was answered with a 2xx status
Is2xx(outcome) == outcome \in {"ok", "bad_body"}

\* C4: when attempt k is the first that is answered 2xx, the call makes no
\* attempt after it and returns success = true, and the UsageRecord of the call
\* has response.success = true
C4_SuccessEndsTheCall ==
    \A c \in CallIds :
        \A k \in 1..Len(calls[c].outcomes) :
            Is2xx(calls[c].outcomes[k]) =>
                /\ Len(calls[c].outcomes) = k
                /\ LoopEnded(c)
                /\ calls[c].response.success
                /\ calls[c].pc = "done" => calls[c].result.success
                /\ \A r \in RecordsOf(c) : ledger[r].success

\* the rules of the parameter declarations that the parameter map violates
ViolatedRules(tool, parameters) ==
    { rule \in {"required", "type", "min", "max", "pattern", "enum"} \X ParamNames :
        \E i \in 1..Len(tool.parameters) :
            LET param == tool.parameters[i]
                value == parameters[param.name]
                v == param.validation
            IN /\ param.name = rule[2]
               /\ CASE rule[1] = "required" -> param.required /\ IsMissing(value)
                    [] rule[1] = "type" -> ~IsMissing(value) /\ value.t # param.type
                    [] rule[1] = "min" ->
                         v.def /\ v.min.def /\ value.t = "number" /\ value.n < v.min.v
                    [] rule[1] = "max" ->
                         v.def /\ v.max.def /\ value.t = "number" /\ value.n > v.max.v
                    [] rule[1] = "pattern" ->
                         v.def /\ v.pattern.def /\ value.t = "string"
                         /\ value.s \notin v.pattern.matches
                    [] rule[1] = "enum" ->
                         v.def /\ v.enum.def /\ v.enum.vals # {} /\ ~IsMissing(value)
                         /\ value \notin v.enum.vals }

\* C5: no request is issued unless the parameters violate no rule; a call
\* whose parameters violate some rule makes no attempt, and the error it
\* returns has a message for every violated rule
C5_ValidationBeforeDispatch ==
    \A c \in CallIds :
        Started(c) =>
            LET violated == ViolatedRules(calls[c].tool, calls[c].parameters)
                messages == calls[c].result.error.messages
            IN /\ (calls[c].pc = "fetch" \/ calls[c].outcomes # <<>>) => violated = {}
               /\ (violated # {} /\ calls[c].pc = "done") =>
                      /\ ~calls[c].result.success
                      /\ \A rule \in violated :
                             \E m \in 1..Len(messages) : messages[m] = rule

\* C6: the headers of every request carry Content-Type: application/json and no
\* other Content-Type, and every other header of the tool unchanged
C6_ContentTypeIsJson ==
    \A c \in CallIds :
        calls[c].request # NoRequest =>
            /\ \A h \in calls[c].request.headers :
                   h[1] = "Content-Type" => h[2] = "application/json"
            /\ <<"Content-Type", "application/json">> \in calls[c].request.headers
            /\ \A h \in calls[c].tool.headers :
                   h[1] # "Content-Type" => h \in calls[c].request.headers

----------------------------------------------------------------------------
(* Properties of the registry *)

\* C7: when embedQuery fails during registerApiTool or updateTool, the
\* operation fails and the collection is left as it was
C7_EmbeddingFailureChangesNothing ==
    [][lastOp'.embed = "failed" => (tools' = tools /\ ~lastOp'.ret)]_vars

C7_Witness ==
    /\ lastOp.op = "update"
    /\ lastOp.embed = "failed"
    /\ lastOp.carries
    /\ lastOp.existed

\* C8: every stored tool has a non-empty embedding, and no two stored tools
\* have the same toolId
C8_UniqueToolIds ==
    /\ \A i \in 1..Len(tools) : Len(tools[i].embedding) > 0
    /\ \A i, j \in 1..Len(tools) : tools[i].toolId = tools[j].toolId => i = j

\* two tools registered within one millisecond, and then a registration that failed
C8_Witness ==
    /\ lastOp.op = "register"
    /\ ~lastOp.ret
    /\ Len(tools) = 2
    /\ tools[1].toolId[2] = tools[2].toolId[2]
    /\ tools[1].toolId # tools[2].toolId

C10_DeactivateReturnsFlipped ==
    lastOp.op = "deactivate" =>
        /\ lastOp.ret <=> (lastOp.existed /\ lastOp.wasActive)
        /\ lastOp.idx > 0 => ~tools[lastOp.idx].isActive

----------------------------------------------------------------------------
(* Properties of the marketplace *)

\* C11: no operation removes a stored tool or changes its toolId, so every
\* toolId that was issued keeps identifying one stored tool, and the toolId of
\* every UsageRecord of the ledger is the toolId of a stored tool
C11_ToolIdsPersist ==
    /\ [][/\ Len(tools') >= Len(tools)
          /\ \A i \in 1..Len(tools) : tools'[i].toolId = tools[i].toolId]_vars
    /\ [](\A k \in 1..Len(ledger) : Exists(ledger[k].toolId))

\* C12: every tool that searchToolsGlobally returns is active and has a
\* non-empty embedding, and is public unless filters.userId is set, in which
\* case it is owned by filters.userId; searchTools(userId, ...) returns active
\* tools of userId only, and every one of them, public or not, when the limit
\* allows
C12_SearchVisibility ==
    /\ lastOp.op = "searchToolsGlobally" =>
           \A k \in 1..Len(lastOp.out) :
               LET doc == tools[lastOp.out[k].tool]
               IN /\ doc.isActive
                  /\ Len(doc.embedding) > 0
                  /\ IF lastOp.filters.userId \in {Absent, ""}
                     THEN doc.isPublic
                     ELSE doc.userId = lastOp.filters.userId
    /\ lastOp.op = "searchTools" =>
           /\ \A k \in 1..Len(lastOp.out) :
                  LET doc == tools[lastOp.out[k].tool]
                  IN doc.isActive /\ doc.userId = lastOp.filters.userId
           /\ (~lastOp.threw /\ lastOp.limit >= Len(tools)) =>
                  \A i \in 1..Len(tools) :
                      (tools[i].isActive /\ tools[i].userId = lastOp.filters.userId) =>
                          \E k \in 1..Len(lastOp.out) : lastOp.out[k].tool = i

\* searchTools returns the private tool of its caller and not the tool that
\* the caller deactivated
C12_Witness ==
    /\ lastOp.op = "searchTools"
    /\ Len(tools) = 2
    /\ Len(lastOp.out) = 1
    /\ \A i \in 1..2 : tools[i].userId = lastOp.filters.userId
    /\ ~tools[lastOp.out[1].tool].isPublic
    /\ \E i \in 1..2 : ~tools[i].isActive

\* the entries are in the order of non-increasing similarity, and entries of
\* equal similarity in the order of their positions
RankedStably(out, position) ==
    \A j, k \in 1..Len(out) :
        j < k =>
            /\ ~SimGreater(out[k].similarity, out[j].similarity)
            /\ SimEqual(out[j].similarity, out[k].similarity) =>
                   position[j] < position[k]

MinOf(a, b) == IF a < b THEN a ELSE b

\* C13: findMostSimilar and the ranking of searchToolsGlobally return the
\* candidates by non-increasing cosine similarity to the query, candidates of
\* equal similarity in their original order; they return min(topK, number of
\* candidates) entries, the most similar ones, and so all candidates when topK
\* is at least their number
C13_RankedByStableSimilarity ==
    /\ (lastOp.op = "findMostSimilar" /\ ~lastOp.ret.throws) =>
           LET out == lastOp.ret.out
               vectors == lastOp.vectors
               returned == {out[k].index : k \in 1..Len(out)}
           IN /\ Len(out) = MinOf(lastOp.topK, Len(vectors))
              /\ Cardinality(returned) = Len(out)
              /\ \A k \in 1..Len(out) :
                     /\ out[k].index \in 0..(Len(vectors) - 1)
                     /\ out[k].vector = vectors[out[k].index + 1]
                     /\ out[k].similarity = CosineSimilarity(lastOp.queryVector, out[k].vector)
              /\ RankedStably(out, [k \in 1..Len(out) |-> out[k].index])
              /\ \A i \in 0..(Len(vectors) - 1) :
                     i \notin returned =>
                         \A k \in 1..Len(out) :
                             ~SimGreater(CosineSimilarity(lastOp.queryVector, vectors[i + 1]),
                                         out[k].similarity)
              /\ lastOp.topK >= Len(vectors) => returned = 0..(Len(vectors) - 1)
    /\ (lastOp.op = "searchToolsGlobally" /\ ~lastOp.threw) =>
           LET out == lastOp.out
               candidates == {i \in 1..Len(tools) :
                                 /\ GlobalCriteria(tools[i], lastOp.filters)
                                 /\ Len(tools[i].embedding) > 0}
               returned == {out[k].tool : k \in 1..Len(out)}
               queryVector == Coordinates(EmbedQuery(<<Trim(lastOp.query)>>))
               Sim(i) == CosineSimilarity(queryVector, Coordinates(tools[i].embedding))
           IN /\ Len(out) = MinOf(lastOp.limit, Cardinality(candidates))
              /\ Cardinality(returned) = Len(out)
              /\ returned \subseteq candidates
              /\ \A k \in 1..Len(out) : out[k].similarity = Sim(out[k].tool)
              /\ RankedStably(out, [k \in 1..Len(out) |-> out[k].tool])
              /\ \A i \in candidates \ returned :
                     \A k \in 1..Len(out) : ~SimGreater(Sim(i), out[k].similarity)

\* three candidates, the first and the last equally similar to the query and
\* more similar than the second: the first, then the last are returned
C13_Witness ==
    /\ lastOp.op = "findMostSimilar"
    /\ ~lastOp.ret.throws
    /\ lastOp.queryVector = <<1, 1>>
    /\ lastOp.vectors = <<<<1, 0>>, <<-1, 0>>, <<0, 1>>>>
    /\ lastOp.topK = 2
    /\ Len(lastOp.ret.out) = 2
    /\ lastOp.ret.out[1].index = 0
    /\ lastOp.ret.out[2].index = 2

\* the integer that a decimal numeral denotes
RECURSIVE IntegerValue(_)
IntegerValue(digits) ==
    IF digits = <<>> THEN 0
    ELSE 10 * IntegerValue(SubSeq(digits, 1, Len(digits) - 1))
         + (CharCode(digits[Len(digits)]) - CharCode("0"))

\* C14: with a maxCost filter, searchToolsGlobally and getToolsByCategory
\* return a tool (public, active, of the category) if and only if the integer
\* value of its costInWei is at most maxCost
C14_MaxCostComparesIntegers ==
    (lastOp.op \in {"searchToolsGlobally", "getToolsByCategory"}
       /\ ~lastOp.threw /\ lastOp.filters.maxCost.def /\ lastOp.limit >= Len(tools)) =>
        \A i \in 1..Len(tools) :
            (\E k \in 1..Len(lastOp.out) : lastOp.out[k].tool = i)
            <=> (/\ tools[i].isActive
                 /\ tools[i].isPublic
                 /\ IntegerValue(tools[i].costInWei) <= lastOp.filters.maxCost.v)

\* C15: the usage summary of a caller is computed from UsageRecords of active
\* tools of that caller only, with or without the toolId filter
C15_AnalyticsOfOwnToolsOnly ==
    lastOp.op = "getToolUsageAnalytics" =>
        \A k \in lastOp.matched : ledger[k].toolId \in UserToolIds(lastOp.userId)

\* C16: the health of a tool is healthy iff successRate >= 0.95 and the average
\* latency is below 5000 ms; otherwise warning iff successRate >= 0.85 and the
\* latency is below 10000 ms; otherwise critical. 0.96/3000 is healthy,
\* 0.90/8000 and 0.95/5000 are warning, 0.5 is critical at every latency
C16_HealthClassification ==
    lastOp.op = "getToolHealthStatus" =>
        LET rate == lastOp.successRate
            ms == lastOp.avgExecutionTime
            healthy == 100 * rate >= 95 * RateScale /\ ms < 5000
            warning == ~healthy /\ 100 * rate >= 85 * RateScale /\ ms < 10000
        IN /\ lastOp.ret \in {"healthy", "warning", "critical"}
           /\ lastOp.ret = "healthy" <=> healthy
           /\ lastOp.ret = "warning" <=> warning
           /\ lastOp.ret = "critical" <=> (~healthy /\ ~warning)
           /\ (100 * rate = 96 * RateScale /\ ms = 3000) => lastOp.ret = "healthy"
           /\ (100 * rate = 90 * RateScale /\ ms = 8000) => lastOp.ret = "warning"
           /\ (100 * rate = 95 * RateScale /\ ms = 5000) => lastOp.ret = "warning"
           /\ 100 * rate = 50 * RateScale => lastOp.ret = "critical"

\* successRate 0.95 at 5000 ms: warning
C16_Witness ==
    /\ lastOp.op = "getToolHealthStatus"
    /\ lastOp.successRate = 95
    /\ lastOp.avgExecutionTime = 5000
    /\ lastOp.ret = "warning"

\* C17: formatWei maps "1000000000000000" to "1.000 mETH",
\* "2000000000000000000" to "2.0 ETH" and "500" to "500 wei"; it uses ETH from
\* 10^18 wei on, mETH from 10^15 wei up to 10^18 wei, and the wei numeral below
C17_FormatWei ==
    lastOp.op = "formatWei" =>
        LET w == lastOp.weiAmount
        IN /\ w = <<"1">> \o Zeros(15) =>
                  lastOp.ret = Formatted(<<"1", ".", "0", "0", "0">>, "mETH")
           /\ w = <<"2">> \o Zeros(18) =>
                  lastOp.ret = Formatted(<<"2", ".", "0">>, "ETH")
           /\ w = <<"5", "0", "0">> => lastOp.ret = Formatted(w, "wei")
           /\ lastOp.ret.unit = "ETH" <=> Len(w) >= 19
           /\ lastOp.ret.unit = "mETH" <=> Len(w) \in 16..18
           /\ lastOp.ret.unit = "wei" <=> Len(w) <= 15
           /\ lastOp.ret.unit = "wei" => lastOp.ret.number = w

----------------------------------------------------------------------------
(* Properties of cosineSimilarity *)

ZeroMagnitude(vec) == \A i \in 1..Len(vec) : vec[i] = 0

\* C20: cosineSimilarity(a, b) throws exactly when the lengths of a and b
\* differ, also when exactly one of them is empty; for equal lengths it
\* returns 0 when both are empty or either has zero magnitude; and it returns
\* for (a, b) what it returns for (b, a)
C20_CosineSimilarity ==
    lastOp.op = "cosineSimilarity" =>
        LET vecA == lastOp.vecA
            vecB == lastOp.vecB
            ret  == lastOp.ret
        IN /\ ret.throws <=> Len(vecA) # Len(vecB)
           /\ (Len(vecA) = Len(vecB) /\ (ZeroMagnitude(vecA) \/ ZeroMagnitude(vecB))) =>
                  (~ret.throws /\ ret.num = 0)
           /\ ret = CosineSimilarity(vecB, vecA)

\* an empty vector compared with a non-empty one
C20_Witness ==
    /\ lastOp.op = "cosineSimilarity"
    /\ Len(lastOp.vecA) = 0
    /\ Len(lastOp.vecB) > 0
    /\ lastOp.ret.throws

----------------------------------------------------------------------------
(* Properties of concurrent calls *)

AllReturned == \A c \in DOMAIN calls : calls[c].pc = "done"

RecordOfCall(record, c) ==
    /\ record.userId = calls[c].userId
    /\ record.sessionId = calls[c].sessionId
    /\ record.parameters = calls[c].parameters
    /\ record.toolId = calls[c].tool.toolId
    /\ record.success = calls[c].result.success
    /\ record.error = calls[c].result.error

\* the attempt counter of the call counts the attempts of the call itself
OwnAttemptCounter(c) ==
    /\ calls[c].pc = "fetch" => calls[c].attempt = Len(calls[c].outcomes) + 1
    /\ calls[c].pc \in {"backoff", "save", "done"} =>
           calls[c].attempt = Len(calls[c].outcomes)
    /\ Len(calls[c].outcomes) <= calls[c].maxRetries

----------------------------------------------------------------------------
(* Properties of termination *)

\* C21: every executeTool call that began returns, after at most as many
\* attempts as its retry budget allows (at least none), each attempt ended by
\* a response or by the abort of its timer
C21_EveryCallReturns ==
    /\ \A c \in CallIds : [](calls[c].pc # "idle" => <>(calls[c].pc = "done"))
    /\ [](\A c \in CallIds :
             calls[c].pc # "idle" =>
                 Len(calls[c].outcomes) <= IF calls[c].maxRetries > 0
                                           THEN calls[c].maxRetries ELSE 0)

----------------------------------------------------------------------------
(* Properties of the execute endpoint *)

\* C22: AppController.executeTool hands the engine only a tool that is stored
\* and active when it is looked up; for a toolId of no tool or of a deactivated
\* tool it answers 404, starts no call (so sends no request) and leaves the
\* ledger as it is
C22_EngineOnlyForActiveTools ==
    /\ [][\A c \in CallIds :
              (calls[c].pc = "idle" /\ calls'[c].pc # "idle") =>
                  \E i \in 1..Len(tools) :
                      /\ tools[i].toolId = calls'[c].tool.toolId
                      /\ tools[i].isActive]_vars
    /\ [][(lastOp'.op = "executeTool" /\ lastOp' # lastOp) =>
              /\ lastOp'.status = 404
              /\ calls' = calls
              /\ ledger' = ledger]_vars
    /\ [][(calls' = calls /\ lastOp'.op = "executeTool") =>
              ~\E i \in 1..Len(tools) :
                    tools[i].toolId = lastOp'.toolId /\ tools[i].isActive]_vars
    /\ [](\A k \in 1..Len(ledger) : \E c \in CallIds :
              calls[c].pc = "done" /\ ledger[k].call = c)

\* a deactivated tool was asked for: 404, no call, no record
C22_Witness ==
    /\ lastOp.op = "executeTool"
    /\ lastOp.status = 404
    /\ \E i \in 1..Len(tools) : tools[i].toolId = lastOp.toolId /\ ~tools[i].isActive
    /\ \A c \in CallIds : calls[c].pc = "idle"
    /\ ledger = <<>>

----------------------------------------------------------------------------
(* Properties of the stored embedding and price *)

\* C23: the stored embedding of every tool is the embedding of the text built
\* from the tool's stored name, description, category and parameter
\* descriptions
C23_EmbeddingOfStoredFields ==
    \A i \in 1..Len(tools) :
        tools[i].embedding = EmbedQuery(RegisterSearchText(tools[i]))

\* C24: the pricing.costInWei of every stored tool is a non-empty string of
\* decimal digits
C24_CostIsDecimalString ==
    \A i \in 1..Len(tools) :
        /\ Len(tools[i].costInWei) > 0
        /\ \A k \in 1..Len(tools[i].costInWei) : tools[i].costInWei[k] \in Digits

----------------------------------------------------------------------------
(* Properties of the engine's failure handling *)

\* C25: a supplied value that is not a member of a set, non-empty
\* validation.enum gives a validation error; parameters that violate no rule,
\* those whose validation record has no enum or an empty one included, pass
\* validation: the call ends neither with a validation error nor with an
\* exception of the validation
C25_EnumRuleOnlyWhenSet ==
    \A c \in CallIds :
        Started(c) =>
            LET violated == ViolatedRules(calls[c].tool, calls[c].parameters)
                messages == calls[c].result.error.messages
            IN /\ violated = {} =>
                      /\ calls[c].response.error.kind # "TypeError"
                      /\ calls[c].result.error.kind \notin {"TypeError", "validation"}
               /\ \A rule \in violated :
                      (rule[1] = "enum" /\ calls[c].pc = "done") =>
                          /\ calls[c].result.error.kind = "validation"
                          /\ \E m \in 1..Len(messages) : messages[m] = rule

\* the failure that the call met: what validation found or raised, what the
\* last attempt raised, "Unknown error" when no attempt was made
FailureMet(c) ==
    LET validationResult == ValidateParameters(calls[c].tool, calls[c].parameters)
        made == Len(calls[c].outcomes)
    IN IF validationResult.throws THEN "TypeError"
       ELSE IF ~validationResult.valid THEN "validation"
       ELSE IF made = 0 THEN "Unknown error"
       ELSE CASE calls[c].outcomes[made] = "ok" -> "none"
              [] calls[c].outcomes[made] = "http_error" -> "HTTP"
              [] calls[c].outcomes[made] = "abort" -> "AbortError"
              [] calls[c].outcomes[made] = "bad_body" -> "SyntaxError"

\* C26: executeTool ends by returning a result, never by an exception: a call
\* that met a failure returns success = false with the error of that failure,
\* a call whose last attempt succeeded returns success = true, and a rejected
\* usage.save() changes neither
C26_NeverThrows ==
    \A c \in CallIds :
        /\ calls[c].pc \in {"idle", "fetch", "backoff", "save", "done"}
        /\ calls[c].pc = "done" =>
               /\ calls[c].result.returned
               /\ calls[c].result.success <=> FailureMet(c) = "none"
               /\ calls[c].result.error.kind = FailureMet(c)

\* the timer aborted the only attempt and usage.save() was rejected
C26_Witness ==
    \E c \in CallIds :
        /\ calls[c].pc = "done"
        /\ calls[c].outcomes = <<"abort">>
        /\ ~calls[c].logged
        /\ calls[c].result.returned
        /\ calls[c].result.error.kind = "AbortError"

\* C27: when usage.save() is rejected the call returns at once, with the
\* outcome of the HTTP call as it was (a successful call stays successful),
\* without a second write and without a UsageRecord of the call; what it
\* returns is what it returns when the record is written
C27_SaveFailureIsSwallowed ==
    /\ [][\A c \in CallIds :
              (calls[c].pc = "save" /\ calls'[c] # calls[c]) =>
                  /\ calls'[c].pc = "done"
                  /\ calls'[c].result = calls[c].response
                  /\ calls'[c].result.returned
                  /\ ~calls'[c].logged => ledger' = ledger]_vars
    /\ [](\A c \in CallIds :
             (calls[c].pc = "done" /\ ~calls[c].logged) => RecordsOf(c) = {})
    /\ [](\A c \in CallIds :
             (calls[c].pc = "done" /\ calls[c].outcomes # <<>>
                  /\ calls[c].outcomes[Len(calls[c].outcomes)] = "ok") =>
                 calls[c].result.success)

\* a successful call whose record could not be written
C27_Witness ==
    \E c \in CallIds :
        /\ calls[c].pc = "done"
        /\ ~calls[c].logged
        /\ calls[c].outcomes = <<"http_error", "ok">>
        /\ calls[c].result.success
        /\ ledger = <<>>

\* the attempts the claim allows: apiConfig.retries when it is not 0, else 3;
\* none when that is negative
AttemptsAllowed(c) ==
    LET budget == IF calls[c].tool.retries # 0 THEN calls[c].tool.retries ELSE 3
    IN IF budget < 0 THEN 0 ELSE budget

\* what C28 says of the attempts: never more than the budget, exactly the
\* budget against an endpoint that answers non-2xx every time, and none, with
\* a failure 'Unknown error', for negative retries
AttemptBudgetKept(c) ==
    /\ Len(calls[c].outcomes) <= AttemptsAllowed(c)
    /\ (LoopEnded(c) /\ AllNon2xx(c)) => Len(calls[c].outcomes) = AttemptsAllowed(c)
    /\ (calls[c].pc = "done" /\ calls[c].tool.retries < 0) =>
           /\ calls[c].outcomes = <<>>
           /\ ~calls[c].result.success
           /\ calls[c].result.error.kind = "Unknown error"

----------------------------------------------------------------------------
(* Properties of the search endpoint *)

\* what the caller userId may see of the store: the caller's own tools and the
\* public tools, in the order of the collection
VisibleTo(userId) ==
    SelectSeq(tools, LAMBDA doc : doc.userId = userId \/ doc.isPublic)

\* what the caller receives: the toolIds and similarities of the response
Received(a) ==
    LET result == AppSearchResult(a[1], a[2], a[3], a[4], a[5], a[6])
    IN [threw |-> result.threw,
        out |-> [k \in 1..Len(result.out) |->
                    [toolId |-> tools[result.out[k].tool].toolId,
                     similarity |-> result.out[k].similarity]]]

\* the response that the request a gets from the tools of store alone
ReceivedFrom(store, a) ==
    LET Eligible(doc) ==
            /\ doc.isActive
            /\ (IF a[5] THEN doc.userId = a[1] ELSE doc.isPublic)
            /\ (Truthy(a[3]) => doc.category = a[3])
            /\ (a[4].def => CostWithinMax(doc.costInWei, a[4].v))
        found == SelectSeq(store, Eligible)
        withEmbedding == SelectSeq(found, LAMBDA doc : Len(doc.embedding) > 0)
        scored == [k \in 1..Len(withEmbedding) |->
                      [toolId |-> withEmbedding[k].toolId,
                       similarity |->
                           CosineSimilarity(Coordinates(EmbedQuery(<<Trim(a[2])>>)),
                                            Coordinates(withEmbedding[k].embedding))]]
        throws == \E k \in 1..Len(scored) : scored[k].similarity.throws
        newestFirst == Slice(Reverse(found), a[6])
    IN IF Truthy(a[2]) /\ Trim(a[2]) # ""
       THEN [threw |-> throws,
             out |-> IF throws THEN <<>> ELSE Slice(SortBySimilarity(scored), a[6])]
       ELSE [threw |-> FALSE,
             out |-> [k \in 1..Len(newestFirst) |->
                         [toolId |-> newestFirst[k].toolId, similarity |-> SimilarityZero]]]

\* C29: every tool the search endpoint returns is owned by the caller when
\* myTools is true and is public otherwise, so that none is a non-public tool
\* of another user; and the response to each request is determined by the
\* tools the caller may see, so that stores which differ only in non-public
\* tools of other users give the same response
C29_SearchEndpointVisibility ==
    /\ lastOp.op = "searchToolsEndpoint" =>
           \A k \in 1..Len(lastOp.out) :
               LET doc == tools[lastOp.out[k].tool]
               IN /\ doc.isActive
                  /\ IF lastOp.myTools THEN doc.userId = lastOp.userId ELSE doc.isPublic
                  /\ doc.userId = lastOp.userId \/ doc.isPublic
    /\ \A a \in EndpointSearches : Received(a) = ReceivedFrom(VisibleTo(a[1]), a)

\* the caller u1 browses without myTools while u2 has an active non-public
\* tool: the response has the public tool and not that one
C29_Witness ==
    /\ lastOp.op = "searchToolsEndpoint"
    /\ lastOp.userId = "u1"
    /\ ~lastOp.myTools
    /\ Len(lastOp.out) = 1
    /\ Len(tools) = 2
    /\ \E i \in 1..Len(tools) :
           tools[i].userId = "u2" /\ ~tools[i].isPublic /\ tools[i].isActive

----------------------------------------------------------------------------
(* Properties of the rate limiter *)

====
